---- MODULE Spec2Model ----
(***************************************************************************)
(* A model of the OpenSCAD MCP server: the library-path sandbox of         *)
(* OpenSCADRunner (src/src/openscad_runner.py) and the tool operations of  *)
(* src/src/server.py.                                                      *)
(*                                                                         *)
(* Paths are records [drv, segs]: drv is the drive of an absolute path     *)
(* ("c", "d"; a POSIX host is the case of one drive) or "rel" for a        *)
(* relative path, and segs is the sequence of its components, ".."         *)
(* included.  The disk is a set of nodes (directories, files, symbolic     *)
(* links) keyed by their absolute, link-free location.                     *)
(***************************************************************************)
EXTENDS Integers, Sequences, FiniteSets, TLC

VARIABLES
    disk,           \* the filesystem: a set of nodes [path, kind, target]
    env,            \* OPENSCAD_LIBRARIES_PATH: a path, or NoPath when unset
    executable,     \* runner.executable: "openscad", or "None" when not found
    library_paths,  \* runner.library_paths: the list computed by __init__
    req,            \* the library/script tool request being served
    ret,            \* what that request did and returned
    pc,             \* where the render operation being served stands
    call,           \* the render operation and its arguments
    mesh,           \* what the renderer exported for framing
    frame,          \* what calculate_camera_parameters returned
    invocations,    \* the calls of runner.run made by the operation, in order
    tmp,            \* the temporary files and directories that exist
    generated_images, \* the view images loaded so far
    written,        \* the output files the operation wrote itself
    matrix_img,     \* the composite image saved by render_views_matrix
    result          \* what the render operation returned

renderVars == <<pc, call, mesh, frame, invocations, tmp, generated_images, written,
                matrix_img, result>>
vars == <<disk, env, executable, library_paths, req, ret, pc, call, mesh, frame,
          invocations, tmp, generated_images, written, matrix_img, result>>

(***************************************************************************)
(* Bounds of the model.                                                    *)
(***************************************************************************)
MaxLen == 3         \* longest enumerated library candidate, in components
MaxArgLen == 2      \* longest enumerated script filename, in components

(***************************************************************************)
(* Path values.                                                            *)
(***************************************************************************)
Rel == "rel"
Up == ".."
Drives == {"c", "d"}
P(drv, segs) == [drv |-> drv, segs |-> segs]
NoPath == [drv |-> "none", segs |-> <<>>]

SeqsUpTo(S, n) == UNION {[1..k -> S] : k \in 0..n}
IsPrefix(s, t) == Len(s) <= Len(t) /\ SubSeq(t, 1, Len(s)) = s

\* root is t itself or a component-wise ancestor of t, on the same drive
Under(root, t) == root.drv = t.drv /\ IsPrefix(root.segs, t.segs)

\* os.path.isabs
isabs(p) == p.drv # Rel

\* os.path.join(a, b) for a relative b
join(a, b) == P(a.drv, a.segs \o b.segs)

\* os.path.normpath on the components: ".." removes the component before it
\* and is dropped at the root; no symbolic link is looked at
RECURSIVE NormFrom(_, _)
NormFrom(acc, segs) ==
    IF segs = <<>> THEN acc
    ELSE IF Head(segs) = Up
         THEN NormFrom(IF acc = <<>> THEN acc ELSE SubSeq(acc, 1, Len(acc) - 1),
                       Tail(segs))
         ELSE NormFrom(Append(acc, Head(segs)), Tail(segs))

normpath(segs) == NormFrom(<<>>, segs)

\* the process's working directory
Cwd == P("c", <<"work">>)

\* os.path.abspath: join to the working directory when relative, then normpath
abspath(p) ==
    IF isabs(p) THEN P(p.drv, normpath(p.segs))
    ELSE P(Cwd.drv, normpath(Cwd.segs \o p.segs))

\* os.path.commonpath([a, b]) raises ValueError for paths on different drives
commonpath_raises(a, b) == a.drv # b.drv

RECURSIVE CommonSegs(_, _)
CommonSegs(s, t) ==
    IF s = <<>> \/ t = <<>> \/ Head(s) # Head(t) THEN <<>>
    ELSE <<Head(s)>> \o CommonSegs(Tail(s), Tail(t))

\* os.path.commonpath([a, b]) for two absolute paths of one drive
commonpath(a, b) == P(a.drv, CommonSegs(a.segs, b.segs))

(***************************************************************************)
(* The disk.                                                               *)
(***************************************************************************)
Dir(drv, segs) == [path |-> P(drv, segs), kind |-> "dir", target |-> NoPath]
File(drv, segs) == [path |-> P(drv, segs), kind |-> "file", target |-> NoPath]
Link(drv, segs, to) == [path |-> P(drv, segs), kind |-> "link", target |-> to]

\* what is on the disk whatever the state of the standard library directory
BaseDisk ==
    { Dir("c", <<"etc">>), File("c", <<"etc", "passwd">>),
      File("c", <<"etc", "m.scad">>),
      Dir("c", <<"libs2">>), Dir("c", <<"libs2", "BOSL2">>),
      Dir("c", <<"work">>), File("c", <<"work", "m.scad">>),
      Dir("d", <<"libs">>), Dir("d", <<"libs", "BOSL2">>),
      File("d", <<"libs", "BOSL2", "std.scad">>) }

\* the standard library directory with an installed library
LibsTree ==
    { Dir("c", <<"libs">>), Dir("c", <<"libs", "BOSL2">>),
      File("c", <<"libs", "BOSL2", "std.scad">>) }

\* a symbolic link inside the standard library directory, pointing out of it
LinkNode == Link("c", <<"libs", "link">>, P("c", <<"etc">>))

NoNode == [path |-> NoPath, kind |-> "none", target |-> NoPath]

\* the node stored at an absolute link-free location (the drive root is a directory)
NodeAt(d, p) ==
    IF p.segs = <<>> THEN Dir(p.drv, <<>>)
    ELSE IF \E n \in d : n.path = p THEN CHOOSE n \in d : n.path = p
    ELSE NoNode

Parent(p) == P(p.drv, IF p.segs = <<>> THEN <<>> ELSE SubSeq(p.segs, 1, Len(p.segs) - 1))

\* What the kernel does with a path (stat, open): every component is looked up
\* on the disk, a symbolic link is followed, ".." is the parent of the
\* directory reached so far.  NoPath when a component is missing or is not a
\* directory.
RECURSIVE StatWalk(_, _, _)
StatWalk(d, cur, segs) ==
    IF segs = <<>> THEN cur
    ELSE IF NodeAt(d, cur).kind # "dir" THEN NoPath
    ELSE IF Head(segs) = Up THEN StatWalk(d, Parent(cur), Tail(segs))
    ELSE LET n == NodeAt(d, P(cur.drv, Append(cur.segs, Head(segs)))) IN
         IF n.kind = "none" THEN NoPath
         ELSE IF n.kind = "link" THEN StatWalk(d, n.target, Tail(segs))
         ELSE StatWalk(d, n.path, Tail(segs))

\* the location an absolute path names on the disk, NoPath when there is none
Locate(d, p) == StatWalk(d, P(p.drv, <<>>), p.segs)

\* os.path.exists for an absolute path
exists(d, p) == Locate(d, p) # NoPath

\* os.path.realpath: the canonical form, links and ".." resolved; a missing
\* component is kept as written
RECURSIVE RealWalk(_, _, _)
RealWalk(d, cur, segs) ==
    IF segs = <<>> THEN cur
    ELSE IF Head(segs) = Up THEN RealWalk(d, Parent(cur), Tail(segs))
    ELSE LET nxt == P(cur.drv, Append(cur.segs, Head(segs)))
             n == NodeAt(d, nxt) IN
         IF n.kind = "link" THEN RealWalk(d, n.target, Tail(segs))
         ELSE RealWalk(d, nxt, Tail(segs))

realpath(d, p) == RealWalk(d, P(p.drv, <<>>), p.segs)

(***************************************************************************)
(* Numbers.  The camera values are floats; a value x is kept exactly as    *)
(* [set, sgn, q] with x = sgn * sqrt(q) / 2, which holds the integers, the *)
(* halves of integers and the square roots the framing computes.  set is   *)
(* FALSE for an argument left to None.                                     *)
(***************************************************************************)
Sign(k) == IF k > 0 THEN 1 ELSE IF k < 0 THEN -1 ELSE 0
NoNum == [set |-> FALSE, sgn |-> 0, q |-> 0]
Whole(k) == [set |-> TRUE, sgn |-> Sign(k), q |-> 4 * k * k]
\* s / 2
Half(s) == [set |-> TRUE, sgn |-> Sign(s), q |-> s * s]
\* math.sqrt(n)
Sqrt(n) == [set |-> TRUE, sgn |-> Sign(n), q |-> 4 * n]
\* x * 2.5
Times2p5(x) == [set |-> TRUE, sgn |-> x.sgn, q |-> (25 * x.q) \div 4]
Positive(x) == x.sgn = 1

(***************************************************************************)
(* The values of a render operation at rest.                               *)
(***************************************************************************)
NoCall == [op |-> "none", scad |-> NoPath, out |-> NoPath,
           rx |-> NoNum, ry |-> NoNum, rz |-> NoNum, distance |-> NoNum]
NoMesh == [kind |-> "none", points |-> {}]
NoFrame == [set |-> FALSE, cx |-> NoNum, cy |-> NoNum, cz |-> NoNum, dist |-> NoNum]
NoResult == [kind |-> "none", view |-> "", stderr |-> ""]
NoImage == [size |-> <<0, 0>>, pastes |-> <<>>, labels |-> <<>>]

RenderAtRest ==
    /\ pc = "idle" /\ call = NoCall /\ mesh = NoMesh /\ frame = NoFrame
    /\ invocations = <<>> /\ tmp = {} /\ generated_images = <<>>
    /\ written = {} /\ matrix_img = NoImage /\ result = NoResult

(***************************************************************************)
(* OpenSCADRunner: library roots and the sandbox.                          *)
(***************************************************************************)
\* the platform's standard library directory
StandardPaths == {P("c", <<"libs">>)}

\* OpenSCADRunner.get_library_paths: the configured directory when it exists,
\* then the standard ones, those that exist, without duplicates
get_library_paths(e, d) ==
    LET configured == IF e # NoPath /\ exists(d, e) THEN {abspath(e)} ELSE {}
        paths == configured \cup {abspath(s) : s \in StandardPaths}
    IN {p \in paths : exists(d, p)}

\* list(set(...)): the elements in an order the program does not choose
Orderings(S) ==
    {s \in [1..Cardinality(S) -> S] : \A i, j \in 1..Cardinality(S) : i # j => s[i] # s[j]}

\* the loop of is_path_safe over the roots: "True", "False", or "raise" when
\* commonpath raises
RECURSIVE SafeLoop(_, _)
SafeLoop(roots, t) ==
    IF roots = <<>> THEN "False"
    ELSE IF commonpath_raises(Head(roots), t) THEN "raise"
    ELSE IF commonpath(Head(roots), t) = Head(roots) THEN "True"
    ELSE SafeLoop(Tail(roots), t)

\* is_path_safe with its except clause removed
is_path_safe_uncaught(lp, target) ==
    LET r == SafeLoop(lp, abspath(target)) IN
    [target |-> target, val |-> r = "True", err |-> r = "raise", exc |-> r = "raise"]

\* OpenSCADRunner.is_path_safe: val is the verdict, err says that the try
\* block raised, exc that an exception leaves the method
is_path_safe(lp, target) ==
    LET r == SafeLoop(lp, abspath(target)) IN
    [target |-> target, val |-> r = "True", err |-> r = "raise", exc |-> FALSE]

\* the loop of resolve_library_path over the roots, for a relative path
RECURSIVE ResolveLoop(_, _, _, _, _)
ResolveLoop(rest, lp, d, path, checks) ==
    IF rest = <<>> THEN [path |-> NoPath, exc |-> FALSE, checks |-> checks]
    ELSE LET candidate_path == join(Head(rest), path) IN
         IF ~exists(d, candidate_path)
         THEN ResolveLoop(Tail(rest), lp, d, path, checks)
         ELSE LET s == is_path_safe(lp, candidate_path)
                  seen == Append(checks, s) IN
              IF s.exc THEN [path |-> NoPath, exc |-> TRUE, checks |-> seen]
              ELSE IF s.val
                   THEN [path |-> abspath(candidate_path), exc |-> FALSE, checks |-> seen]
                   ELSE ResolveLoop(Tail(rest), lp, d, path, seen)

\* resolve_library_path that does not ask whether the joined path exists
resolve_library_path_noexists(lp, d, path) ==
    IF isabs(path)
    THEN LET s == is_path_safe(lp, path) IN
         [path |-> IF s.val THEN path ELSE NoPath, exc |-> s.exc, checks |-> <<s>>]
    ELSE IF \E i \in 1..Len(lp) : is_path_safe(lp, join(lp[i], path)).val
         THEN LET i == CHOOSE i \in 1..Len(lp) : is_path_safe(lp, join(lp[i], path)).val
              IN [path |-> abspath(join(lp[i], path)), exc |-> FALSE, checks |-> <<>>]
         ELSE [path |-> NoPath, exc |-> FALSE, checks |-> <<>>]

\* OpenSCADRunner.resolve_library_path: path is the value returned (NoPath for
\* None), exc says that an exception leaves the method, checks are the calls
\* of is_path_safe it made
resolve_library_path(lp, d, path) ==
    IF isabs(path)
    THEN LET s == is_path_safe(lp, path) IN
         [path |-> IF s.val THEN path ELSE NoPath, exc |-> s.exc, checks |-> <<s>>]
    ELSE ResolveLoop(lp, lp, d, path, <<>>)

(***************************************************************************)
(* The library tools of server.py.                                         *)
(***************************************************************************)
NoReq == [op |-> "none", arg |-> NoPath]
NoRet == [kind |-> "none", resolved |-> NoPath, checks |-> <<>>,
          touched |-> {}, roots |-> {}]

LibSegments == {"libs", "BOSL2", "link", "etc", Up}

\* the paths of the specification's examples: the traversal, files of a
\* library and outside it, and the sibling directory of the standard root
LibExamples ==
    { P(Rel, <<"BOSL2", Up, Up, "etc", "passwd">>),
      P(Rel, <<"BOSL2", "std.scad">>),
      P(Rel, <<"link", "passwd">>),
      P("c", <<"etc", "passwd">>),
      P("c", <<"libs", "BOSL2", "std.scad">>),
      P("c", <<"libs2">>),
      P("c", <<"libs2", "BOSL2">>),
      P(Rel, <<Up, "libs2">>),
      P(Rel, <<Up, "libs2", "BOSL2">>) }

LibCandidates ==
    {P(d, s) : d \in Drives \cup {Rel}, s \in SeqsUpTo(LibSegments, MaxLen)}
        \cup LibExamples

LibOps == {"read_scad_library_file", "list_scad_library_directory"}

\* read_scad_library_file(filepath)
ReadLibraryFile(filepath) ==
    /\ req = NoReq
    /\ LET r == resolve_library_path(library_paths, disk, filepath)
           loc == IF r.path = NoPath THEN NoPath ELSE Locate(disk, r.path)
           opened == loc # NoPath /\ NodeAt(disk, loc).kind = "file"
       IN /\ req' = [op |-> "read_scad_library_file", arg |-> filepath]
          /\ ret' = [kind |-> IF r.exc THEN "exception"
                              ELSE IF r.path = NoPath THEN "error"
                              ELSE IF opened THEN "content" ELSE "error",
                     resolved |-> r.path, checks |-> r.checks,
                     touched |-> IF ~r.exc /\ opened THEN {[mode |-> "read", at |-> loc]} ELSE {},
                     roots |-> {}]
          /\ UNCHANGED <<disk, env, executable, library_paths>>
          /\ UNCHANGED renderVars

\* list_scad_library_directory(dirpath)
ListLibraryDirectory(dirpath) ==
    /\ req = NoReq
    /\ LET r == resolve_library_path(library_paths, disk, dirpath)
           loc == IF r.path = NoPath THEN NoPath ELSE Locate(disk, r.path)
           listed == loc # NoPath /\ NodeAt(disk, loc).kind = "dir"
       IN /\ req' = [op |-> "list_scad_library_directory", arg |-> dirpath]
          /\ ret' = [kind |-> IF r.exc THEN "exception"
                              ELSE IF r.path = NoPath \/ loc = NoPath THEN "error"
                              ELSE IF listed THEN "listing" ELSE "error",
                     resolved |-> r.path, checks |-> r.checks,
                     touched |-> IF ~r.exc /\ listed THEN {[mode |-> "read", at |-> loc]} ELSE {},
                     roots |-> {}]
          /\ UNCHANGED <<disk, env, executable, library_paths>>
          /\ UNCHANGED renderVars

\* the roots list_libraries walks: paths = runner.get_library_paths()
list_libraries_paths(lp, e, d) == get_library_paths(e, d)

\* list_libraries()
ListLibraries ==
    /\ req = NoReq
    /\ LET paths == list_libraries_paths(library_paths, env, disk) IN
       /\ req' = [op |-> "list_libraries", arg |-> NoPath]
       /\ ret' = [kind |-> "listing", resolved |-> NoPath, checks |-> <<>>,
                  touched |-> {[mode |-> "read", at |-> Locate(disk, p)] :
                                  p \in {q \in paths : NodeAt(disk, Locate(disk, q)).kind = "dir"}},
                  roots |-> paths]
       /\ UNCHANGED <<disk, env, executable, library_paths>>
       /\ UNCHANGED renderVars

(***************************************************************************)
(* The environment: the disk changes between two requests.                 *)
(***************************************************************************)
\* a library is installed into the standard directory, which did not exist
InstallLibrary ==
    /\ req = NoReq
    /\ LibsTree \cap disk = {}
    /\ disk' = disk \cup LibsTree
    /\ req' = NoReq /\ ret' = NoRet
    /\ UNCHANGED <<env, executable, library_paths>>
    /\ UNCHANGED renderVars

\* a symbolic link is created in the standard library directory
AddLink ==
    /\ req = NoReq
    /\ LibsTree \subseteq disk /\ LinkNode \notin disk
    /\ disk' = disk \cup {LinkNode}
    /\ req' = NoReq /\ ret' = NoRet
    /\ UNCHANGED <<env, executable, library_paths>>
    /\ UNCHANGED renderVars

\* the symbolic link is removed
RemoveLink ==
    /\ req = NoReq
    /\ LinkNode \in disk
    /\ disk' = disk \ {LinkNode}
    /\ req' = NoReq /\ ret' = NoRet
    /\ UNCHANGED <<env, executable, library_paths>>
    /\ UNCHANGED renderVars

\* the tool's result goes back to the caller; nothing of the request is kept
Respond ==
    /\ req # NoReq
    /\ req' = NoReq /\ ret' = NoRet
    /\ UNCHANGED <<disk, env, executable, library_paths>>
    /\ UNCHANGED renderVars

\* OpenSCADRunner.__init__ on the disk and environment the process starts in
InitRunner ==
    /\ library_paths \in Orderings(get_library_paths(env, disk))
    /\ req = NoReq /\ ret = NoRet
    /\ RenderAtRest

InitLibrary ==
    /\ disk \in {BaseDisk, BaseDisk \cup LibsTree, BaseDisk \cup LibsTree \cup {LinkNode}}
    /\ env \in {NoPath, P("d", <<"libs">>)}
    /\ executable = "openscad"
    /\ InitRunner

NextLibrary ==
    \/ \E p \in LibCandidates : ReadLibraryFile(p)
    \/ \E p \in LibCandidates : ListLibraryDirectory(p)
    \/ ListLibraries
    \/ InstallLibrary
    \/ AddLink
    \/ RemoveLink
    \/ Respond

\* the library tools, on a disk that changes between requests
SpecLibrary == InitLibrary /\ [][NextLibrary]_vars

Roots == {library_paths[i] : i \in DOMAIN library_paths}

\* C1 (as stated): a path returned by resolve_library_path has a canonical
\* form (links and ".." resolved) that is a root or lies below a root
C1_CanonicalContainment ==
    (req.op \in LibOps /\ ret.resolved # NoPath)
        => \E r \in Roots : Under(realpath(disk, r), realpath(disk, ret.resolved))

\* the canonical form of a candidate lies in the subtree of some root; a
\* relative candidate is read against each root
CanonicalUnderRoot(d, lp, p) ==
    \E i, j \in DOMAIN lp :
        Under(realpath(d, lp[j]),
              realpath(d, IF isabs(p) THEN p ELSE join(lp[i], p)))

LexicallyUnderRoot(lp, t) ==
    \E i \in DOMAIN lp :
        /\ Under(lp[i], abspath(t))
        /\ \A j \in 1..(i - 1) : lp[j].drv = t.drv

C6_FailClosed ==
    req.op \in LibOps
        => /\ ret.kind # "exception"
           /\ \A i \in DOMAIN ret.checks :
                 ret.checks[i].err
                     => /\ ~ret.checks[i].val
                        /\ ret.resolved \notin {ret.checks[i].target,
                                                abspath(ret.checks[i].target)}
           /\ (ret.resolved = NoPath => ret.kind = "error")

\* C6 witness: a comparison raised on a candidate that lies under a root, and
\* the tool answered with a failure result
C6_Witness ==
    /\ req.op \in LibOps
    /\ \E i \in DOMAIN ret.checks :
          /\ ret.checks[i].err
          /\ \E r \in Roots : Under(r, abspath(ret.checks[i].target))
    /\ ret.kind = "error"

\* C7 (as stated): every operation that consults the library roots sees the
\* set computed at startup
C7_RootsSeenAreStartupRoots ==
    req.op = "list_libraries" => ret.roots = Roots

(***************************************************************************)
(* The script tools of server.py, which work in the working directory.     *)
(***************************************************************************)
ScriptSegments == {"work", "etc", "m", "m.scad", Up}

ScriptCandidates ==
    {P(d, s) : d \in Drives \cup {Rel}, s \in SeqsUpTo(ScriptSegments, MaxArgLen) \ {<<>>}}

\* filename.endswith(".scad"), for the names of ScriptSegments
EndsWithScad(name) == name = "m.scad"

\* if not filename.endswith(".scad"): filename += ".scad"
WithScad(p) ==
    LET n == Len(p.segs) IN
    IF EndsWithScad(p.segs[n]) THEN p
    ELSE P(p.drv, [p.segs EXCEPT ![n] = p.segs[n] \o ".scad"])

\* ".." in filename: a test on the text, true of the component "...scad" too
HasDotDot(p) == \E i \in DOMAIN p.segs : p.segs[i] \in {Up, Up \o ".scad"}

\* the absolute path the kernel is given for a filename of the process
FromCwd(p) == IF isabs(p) THEN p ELSE join(Cwd, p)

\* the check of write_scad_script: "ok", "outside" or "invalid"
write_check(filename) ==
    IF HasDotDot(filename) \/ isabs(filename)
    THEN IF commonpath_raises(Cwd, abspath(filename)) THEN "invalid"
         ELSE IF commonpath(Cwd, abspath(filename)) # Cwd THEN "outside"
         ELSE "ok"
    ELSE "ok"

\* write_scad_script(filename, content)
WriteScadScript(name) ==
    /\ req = NoReq
    /\ LET filename == WithScad(name)
           full == FromCwd(filename)
           dir == Locate(disk, Parent(full))
           at == IF dir = NoPath \/ NodeAt(disk, dir).kind # "dir" THEN NoPath
                 ELSE P(dir.drv, Append(dir.segs, full.segs[Len(full.segs)]))
           saved == /\ write_check(filename) = "ok"
                    /\ at # NoPath
                    /\ NodeAt(disk, at).kind \in {"none", "file"}
       IN /\ req' = [op |-> "write_scad_script", arg |-> name]
          /\ ret' = [kind |-> IF saved THEN "saved" ELSE "error",
                     resolved |-> NoPath, checks |-> <<>>,
                     touched |-> IF saved THEN {[mode |-> "write", at |-> at]} ELSE {},
                     roots |-> {}]
          /\ disk' = IF saved THEN disk \cup {[path |-> at, kind |-> "file", target |-> NoPath]}
                     ELSE disk
          /\ UNCHANGED <<env, executable, library_paths>>
          /\ UNCHANGED renderVars

\* read_scad_script(filename)
ReadScadScript(name) ==
    /\ req = NoReq
    /\ LET filename == WithScad(name)
           at == Locate(disk, FromCwd(filename))
           opened == at # NoPath /\ NodeAt(disk, at).kind = "file"
       IN /\ req' = [op |-> "read_scad_script", arg |-> name]
          /\ ret' = [kind |-> IF opened THEN "content" ELSE "error",
                     resolved |-> NoPath, checks |-> <<>>,
                     touched |-> IF opened THEN {[mode |-> "read", at |-> at]} ELSE {},
                     roots |-> {}]
          /\ UNCHANGED <<disk, env, executable, library_paths>>
          /\ UNCHANGED renderVars

InitScripts ==
    /\ disk = BaseDisk \cup LibsTree
    /\ env = NoPath
    /\ executable = "openscad"
    /\ InitRunner

NextScripts ==
    \/ \E p \in ScriptCandidates : WriteScadScript(p)
    \/ \E p \in ScriptCandidates : ReadScadScript(p)
    \/ Respond

\* the script tools, on a disk without symbolic links
SpecScripts == InitScripts /\ [][NextScripts]_vars

\* a location of the disk lies in the working directory or in a library root
Confined(d, lp, at) ==
    \/ Under(realpath(d, Cwd), at)
    \/ \E i \in DOMAIN lp : Under(realpath(d, lp[i]), at)

\* C2 (as stated): every file a tool operation reads or writes lies inside the
\* working directory or inside a library root
C2_AccessConfined ==
    \A t \in ret.touched : Confined(disk, library_paths, t.at)

(***************************************************************************)
(* The render tools of server.py.                                          *)
(***************************************************************************)
FallbackDistance == 500
ZeroDiagonalDistance == 100
DefaultRotationX == 60
DefaultRotationY == 0
DefaultRotationZ == 135
cols == 3
rows == 3
label_height == 30

\* the location of a temporary file or directory
Temp(segs) == P("tmp", segs)
TempStl == Temp(<<"tmp.stl">>)
TempDir == Temp(<<"tmpdir">>)

\* views: the mapping of render_views_matrix, in the order it is written
Views ==
    << [name |-> "Top", rx |-> 0, ry |-> 0, rz |-> 0],
       [name |-> "Bottom", rx |-> 180, ry |-> 0, rz |-> 0],
       [name |-> "Front", rx |-> 90, ry |-> 0, rz |-> 0],
       [name |-> "Back", rx |-> 270, ry |-> 0, rz |-> 0],
       [name |-> "Left", rx |-> 90, ry |-> 0, rz |-> 90],
       [name |-> "Right", rx |-> 90, ry |-> 0, rz |-> 270],
       [name |-> "Isometric", rx |-> 60, ry |-> 0, rz |-> 45] >>

\* os.path.join(temp_dir, f"{name}.png")
ViewFile(name) == Temp(<<"tmpdir", name \o ".png">>)

\* the tokens of a renderer command line
Flag(f) == [t |-> "flag", flag |-> f, path |-> NoPath, camera |-> NoFrame,
            rx |-> NoNum, ry |-> NoNum, rz |-> NoNum]
PathArg(p) == [t |-> "path", flag |-> "", path |-> p, camera |-> NoFrame,
               rx |-> NoNum, ry |-> NoNum, rz |-> NoNum]
\* f"--camera={cx},{cy},{cz},{rx},{ry},{rz},{d}"
CameraArg(cx, cy, cz, rx, ry, rz, d) ==
    [t |-> "camera", flag |-> "--camera", path |-> NoPath,
     camera |-> [set |-> TRUE, cx |-> cx, cy |-> cy, cz |-> cz, dist |-> d],
     rx |-> rx, ry |-> ry, rz |-> rz]

\* the vertices a mesh may be made of
VertexPool == {<<0, 0, 0>>, <<10, 10, 10>>, <<-3, 4, 0>>}

\* what the export for framing may leave: nothing (the renderer failed), a
\* file that cannot be read as a mesh, or a mesh
MeshOutcomes ==
    {[kind |-> "failed", points |-> {}], [kind |-> "corrupt", points |-> {}]}
        \cup {[kind |-> "mesh", points |-> m] : m \in SUBSET VertexPool}

Min(S) == CHOOSE x \in S : \A y \in S : x <= y
Max(S) == CHOOSE x \in S : \A y \in S : x >= y
Axis(m, i) == {v[i] : v \in m}

DefaultFrame ==
    [set |-> TRUE, cx |-> Whole(0), cy |-> Whole(0), cz |-> Whole(0),
     dist |-> Whole(FallbackDistance)]

\* calculate_camera_parameters with the test for a zero diagonal left out
calculate_camera_parameters_nozero(m) ==
    IF m.kind # "mesh" \/ m.points = {} THEN DefaultFrame
    ELSE LET width == Max(Axis(m.points, 1)) - Min(Axis(m.points, 1))
             depth == Max(Axis(m.points, 2)) - Min(Axis(m.points, 2))
             height == Max(Axis(m.points, 3)) - Min(Axis(m.points, 3))
         IN [set |-> TRUE,
             cx |-> Half(Min(Axis(m.points, 1)) + Max(Axis(m.points, 1))),
             cy |-> Half(Min(Axis(m.points, 2)) + Max(Axis(m.points, 2))),
             cz |-> Half(Min(Axis(m.points, 3)) + Max(Axis(m.points, 3))),
             dist |-> Times2p5(Sqrt(width * width + depth * depth + height * height))]

\* calculate_camera_parameters that gives the zero-diagonal distance for an
\* empty mesh too
calculate_camera_parameters_empty100(m) ==
    IF m.kind # "mesh" THEN DefaultFrame
    ELSE IF m.points = {}
    THEN [DefaultFrame EXCEPT !.dist = Whole(ZeroDiagonalDistance)]
    ELSE calculate_camera_parameters_nozero(m)

\* calculate_camera_parameters with the padding factor 2 its comment speaks of
calculate_camera_parameters_times2(m) ==
    IF m.kind # "mesh" \/ m.points = {} THEN DefaultFrame
    ELSE LET width == Max(Axis(m.points, 1)) - Min(Axis(m.points, 1))
             depth == Max(Axis(m.points, 2)) - Min(Axis(m.points, 2))
             height == Max(Axis(m.points, 3)) - Min(Axis(m.points, 3))
             diagonal == Sqrt(width * width + depth * depth + height * height)
         IN [set |-> TRUE,
             cx |-> Half(Min(Axis(m.points, 1)) + Max(Axis(m.points, 1))),
             cy |-> Half(Min(Axis(m.points, 2)) + Max(Axis(m.points, 2))),
             cz |-> Half(Min(Axis(m.points, 3)) + Max(Axis(m.points, 3))),
             dist |-> IF diagonal.sgn = 0 THEN Whole(ZeroDiagonalDistance)
                      ELSE [diagonal EXCEPT !.q = 4 * diagonal.q]]

\* calculate_camera_parameters: the values returned for what the export left
calculate_camera_parameters(m) ==
    IF m.kind = "failed" THEN DefaultFrame
    ELSE IF m.kind = "corrupt" THEN DefaultFrame
    ELSE IF m.points = {} THEN DefaultFrame
    ELSE LET minx == Min(Axis(m.points, 1))
             maxx == Max(Axis(m.points, 1))
             miny == Min(Axis(m.points, 2))
             maxy == Max(Axis(m.points, 2))
             minz == Min(Axis(m.points, 3))
             maxz == Max(Axis(m.points, 3))
             width == maxx - minx
             depth == maxy - miny
             height == maxz - minz
             diagonal == Sqrt(width * width + depth * depth + height * height)
         IN [set |-> TRUE,
             cx |-> Half(minx + maxx), cy |-> Half(miny + maxy), cz |-> Half(minz + maxz),
             dist |-> IF diagonal.sgn = 0 THEN Whole(ZeroDiagonalDistance)
                      ELSE Times2p5(diagonal)]

\* the finally clause of calculate_camera_parameters
remove_temp_stl(t) == IF TempStl \in t THEN t \ {TempStl} ELSE t

\* a temporary directory that is never removed
leave_temp_dir_leak(t) == t

\* the end of "with tempfile.TemporaryDirectory()": the directory and what is in it
leave_temp_dir(t) == {x \in t : ~Under(TempDir, x)}

\* "if rotation_x or rotation_y or rotation_z or distance": a zero counts as absent
has_camera_truthy(c) ==
    \/ (c.rx.set /\ c.rx.sgn # 0) \/ (c.ry.set /\ c.ry.sgn # 0)
    \/ (c.rz.set /\ c.rz.sgn # 0) \/ (c.distance.set /\ c.distance.sgn # 0)

\* has_rotation or distance is not None
has_camera(c) == c.rx.set \/ c.ry.set \/ c.rz.set \/ c.distance.set

\* the argument list render_preview builds
preview_args(c, f) ==
    <<Flag("-o"), PathArg(c.out)>>
        \o (IF has_camera(c)
            THEN <<CameraArg(f.cx, f.cy, f.cz,
                             IF c.rx.set THEN c.rx ELSE Whole(DefaultRotationX),
                             IF c.ry.set THEN c.ry ELSE Whole(DefaultRotationY),
                             IF c.rz.set THEN c.rz ELSE Whole(DefaultRotationZ),
                             IF c.distance.set THEN c.distance ELSE f.dist)>>
            ELSE <<>>)
        \o <<PathArg(c.scad)>>

\* the argument list render_views_matrix builds for one view
view_args(c, f, v) ==
    <<Flag("-o"), PathArg(ViewFile(v.name)),
      CameraArg(f.cx, f.cy, f.cz, Whole(v.rx), Whole(v.ry), Whole(v.rz),
                IF c.distance.set THEN c.distance ELSE f.dist),
      PathArg(c.scad)>>

\* the arguments a caller may give
ScadArgs == {P(Rel, <<"m.scad">>), P(Rel, <<"missing.scad">>)}
RotationArgs == {NoNum, Whole(0), Whole(90)}
DistanceArgs == {NoNum, Whole(0), Whole(-2), Whole(3)}
Stderrs == {"E1", "E2"}
\* the size of the images of a renderer that is given no --imgsize
RendererImageSize == <<512, 512>>

Invocation(argv, ok, stderr) == [argv |-> argv, ok |-> ok, stderr |-> stderr]
Outcome(kind, view, stderr) == [kind |-> kind, view |-> view, stderr |-> stderr]

\* the two tests every render tool starts with; "" when both pass
entry_error(c) ==
    IF executable = "None" THEN "no_executable"
    ELSE IF ~exists(disk, FromCwd(c.scad)) THEN "no_file"
    ELSE ""

\* a render tool is called: the entry tests, then render_views_matrix and a
\* render_preview with a camera argument enter calculate_camera_parameters,
\* which creates its temporary file
CallRender(c) ==
    /\ pc = "idle"
    /\ call' = c
    /\ IF entry_error(c) # ""
       THEN /\ pc' = "done"
            /\ result' = Outcome(entry_error(c), "", "")
            /\ tmp' = tmp
       ELSE /\ result' = NoResult
            /\ IF c.op = "render_views_matrix" \/ (c.op = "render_preview" /\ has_camera(c))
               THEN pc' = "framing" /\ tmp' = tmp \cup {TempStl}
               ELSE pc' = "render" /\ tmp' = tmp
    /\ UNCHANGED <<mesh, frame, invocations, generated_images, written, matrix_img>>
    /\ UNCHANGED <<disk, env, executable, library_paths, req, ret>>

RenderPreview(scad, rx, ry, rz, distance) ==
    CallRender([op |-> "render_preview", scad |-> scad, out |-> P(Rel, <<"preview.png">>),
                rx |-> rx, ry |-> ry, rz |-> rz, distance |-> distance])

RenderViewsMatrix(scad, distance) ==
    CallRender([op |-> "render_views_matrix", scad |-> scad,
                out |-> P(Rel, <<"views_matrix.png">>),
                rx |-> NoNum, ry |-> NoNum, rz |-> NoNum, distance |-> distance])

ExportStl(scad) ==
    CallRender([op |-> "export_stl", scad |-> scad, out |-> P(Rel, <<"model.stl">>),
                rx |-> NoNum, ry |-> NoNum, rz |-> NoNum, distance |-> NoNum])

\* what follows calculate_camera_parameters in the calling tool
after_framing(c) == IF c.op = "render_views_matrix" THEN "views" ELSE "render"

\* the body of calculate_camera_parameters: the export, the analysis of what
\* it left, and the finally clause; render_views_matrix then creates its
\* temporary directory
Framing(m, stderr) ==
    /\ pc = "framing"
    /\ mesh' = m
    /\ invocations' = Append(invocations,
                             Invocation(<<Flag("-o"), PathArg(TempStl), PathArg(call.scad)>>,
                                        m.kind # "failed", stderr))
    /\ frame' = calculate_camera_parameters(m)
    /\ pc' = after_framing(call)
    /\ tmp' = remove_temp_stl(tmp)
                 \cup (IF after_framing(call) = "views" THEN {TempDir} ELSE {})
    /\ UNCHANGED <<call, generated_images, written, matrix_img, result>>
    /\ UNCHANGED <<disk, env, executable, library_paths, req, ret>>

\* the single runner.run of render_preview and of export_stl
Render(ok, stderr) ==
    /\ pc = "render"
    /\ invocations' = Append(invocations,
           Invocation(IF call.op = "render_preview" THEN preview_args(call, frame)
                      ELSE <<Flag("-o"), PathArg(call.out), PathArg(call.scad)>>,
                      ok, stderr))
    /\ result' = Outcome(IF ok THEN "ok" ELSE "render_failed", "", stderr)
    /\ pc' = "done"
    /\ UNCHANGED <<call, mesh, frame, tmp, generated_images, written, matrix_img>>
    /\ UNCHANGED <<disk, env, executable, library_paths, req, ret>>

\* the loop of render_views_matrix that goes on after a failed view
view_goes_on_always(ok, loaded) == TRUE

\* whether the loop of render_views_matrix goes on after a view
view_goes_on(ok, loaded) == ok /\ loaded

\* the entry of generated_images for a view: (name, img, rx, ry, rz), img being
\* the image opened from the view's file
ViewImage(v, size) ==
    [name |-> v.name, img |-> [file |-> ViewFile(v.name), size |-> size],
     rx |-> v.rx, ry |-> v.ry, rz |-> v.rz]

\* one turn of the loop of render_views_matrix: the view is rendered into the
\* temporary directory and its image, of the size the renderer gave it, is
\* loaded
View(ok, loaded, size, stderr) ==
    /\ pc = "views"
    /\ Len(generated_images) < Len(Views)
    /\ LET v == Views[Len(generated_images) + 1] IN
       /\ invocations' = Append(invocations,
                                Invocation(view_args(call, frame, v), ok, stderr))
       /\ IF view_goes_on(ok, loaded)
          THEN /\ generated_images' = Append(generated_images, ViewImage(v, size))
               /\ tmp' = tmp \cup {ViewFile(v.name)}
               /\ pc' = IF Len(generated_images) + 1 = Len(Views) THEN "compose" ELSE "views"
               /\ result' = result
          ELSE /\ generated_images' = generated_images
               /\ tmp' = leave_temp_dir(IF ok THEN tmp \cup {ViewFile(v.name)} ELSE tmp)
               /\ pc' = "done"
               /\ result' = IF ~ok THEN Outcome("view_failed", v.name, stderr)
                            ELSE Outcome("image_error", v.name, "")
    /\ UNCHANGED <<call, mesh, frame, written, matrix_img>>
    /\ UNCHANGED <<disk, env, executable, library_paths, req, ret>>

\* the composite laid out column by column
compose_matrix_colmajor(images, dist) ==
    LET w == images[1].img.size[1]
        h == images[1].img.size[2]
        cell_w == w
        cell_h == h + label_height
        x(idx) == (idx \div rows) * cell_w
        y(idx) == (idx % rows) * cell_h
    IN [size |-> <<cols * cell_w, rows * cell_h>>,
        pastes |-> [k \in DOMAIN images |->
                       [name |-> images[k].name, img |-> images[k].img,
                        at |-> <<x(k - 1), y(k - 1) + label_height>>]],
        labels |-> [k \in DOMAIN images |->
                       [name |-> images[k].name, rx |-> images[k].rx, ry |-> images[k].ry,
                        rz |-> images[k].rz, dist |-> dist,
                        at |-> <<x(k - 1) + 5, y(k - 1) + 5>>]]]

\* the composite render_views_matrix builds from generated_images: the canvas
\* sized from the first image, every image pasted under the label band of its
\* cell, and a label drawn in the band; idx of the code is k - 1
compose_matrix(images, dist) ==
    LET w == images[1].img.size[1]
        h == images[1].img.size[2]
        cell_w == w
        cell_h == h + label_height
        matrix_w == cols * cell_w
        matrix_h == rows * cell_h
        col(idx) == idx % cols
        row(idx) == idx \div cols
        x(idx) == col(idx) * cell_w
        y(idx) == row(idx) * cell_h
    IN [size |-> <<matrix_w, matrix_h>>,
        pastes |-> [k \in DOMAIN images |->
                       [name |-> images[k].name, img |-> images[k].img,
                        at |-> <<x(k - 1), y(k - 1) + label_height>>]],
        labels |-> [k \in DOMAIN images |->
                       [name |-> images[k].name, rx |-> images[k].rx, ry |-> images[k].ry,
                        rz |-> images[k].rz, dist |-> dist,
                        at |-> <<x(k - 1) + 5, y(k - 1) + 5>>]]]

\* the composition: the matrix is saved and read back, or an exception ends
\* the operation before or after the file is saved
Compose(how) ==
    /\ pc = "compose"
    /\ IF generated_images = <<>>
       THEN /\ written' = written
            /\ matrix_img' = matrix_img
            /\ result' = Outcome("no_images", "", "")
       ELSE /\ written' = IF how = "raised_before_save" THEN written
                          ELSE written \cup {call.out}
            /\ matrix_img' = IF how = "raised_before_save" THEN matrix_img
                             ELSE compose_matrix(generated_images,
                                                 IF call.distance.set THEN call.distance
                                                 ELSE frame.dist)
            /\ result' = Outcome(IF how = "saved" THEN "ok" ELSE "matrix_error", "", "")
    /\ tmp' = leave_temp_dir(tmp)
    /\ pc' = "done"
    /\ UNCHANGED <<call, mesh, frame, invocations, generated_images>>
    /\ UNCHANGED <<disk, env, executable, library_paths, req, ret>>

\* the result goes back to the caller; nothing of the operation is kept but
\* the temporary files it left
Return ==
    /\ pc = "done"
    /\ pc' = "idle" /\ call' = NoCall /\ mesh' = NoMesh /\ frame' = NoFrame
    /\ invocations' = <<>> /\ generated_images' = <<>> /\ written' = {}
    /\ matrix_img' = NoImage
    /\ result' = NoResult
    /\ UNCHANGED tmp
    /\ UNCHANGED <<disk, env, executable, library_paths, req, ret>>

InitRender ==
    /\ disk = BaseDisk \cup LibsTree
    /\ env = NoPath
    /\ executable \in {"openscad", "None"}
    /\ InitRunner

NextRender ==
    \/ \E s \in ScadArgs, rx, ry, rz \in RotationArgs, d \in DistanceArgs :
          RenderPreview(s, rx, ry, rz, d)
    \/ \E s \in ScadArgs, d \in DistanceArgs : RenderViewsMatrix(s, d)
    \/ \E s \in ScadArgs : ExportStl(s)
    \/ \E m \in MeshOutcomes, e \in Stderrs : Framing(m, e)
    \/ \E ok \in BOOLEAN, e \in Stderrs : Render(ok, e)
    \/ \E ok, loaded \in BOOLEAN, e \in Stderrs : View(ok, loaded, RendererImageSize, e)
    \/ \E how \in {"saved", "raised_before_save", "raised_after_save"} : Compose(how)
    \/ Return

\* the render tools, the renderer answering as it pleases
SpecRender == InitRender /\ [][NextRender]_vars

\* the sizes the view images may have when nothing is assumed of the renderer
ImageSizes == {<<4, 3>>, <<2, 5>>, RendererImageSize}
CompositeDistances == {NoNum, Whole(3)}
CompositeMeshes ==
    {[kind |-> "failed", points |-> {}],
     [kind |-> "mesh", points |-> {<<0, 0, 0>>, <<10, 10, 10>>}]}

NextComposite ==
    \/ \E s \in ScadArgs, d \in CompositeDistances : RenderViewsMatrix(s, d)
    \/ \E m \in CompositeMeshes : Framing(m, "E1")
    \/ \E ok, loaded \in BOOLEAN, size \in ImageSizes : View(ok, loaded, size, "E1")
    \/ \E how \in {"saved", "raised_before_save", "raised_after_save"} : Compose(how)
    \/ Return

\* render_views_matrix alone, the view images of any of the sizes
SpecComposite == InitRender /\ [][NextComposite]_vars

(***************************************************************************)
(* Properties of the render tools.                                         *)
(***************************************************************************)
IsMatrix == call.op = "render_views_matrix"
IsPreview == call.op = "render_preview"
ViewOrder == <<"Top", "Bottom", "Front", "Back", "Left", "Right", "Isometric">>
LastInvocation == invocations[Len(invocations)]
AllSucceeded == \A i \in DOMAIN invocations : invocations[i].ok

\* the tokens of the renderer invocations made so far
CameraTokens ==
    UNION {{invocations[i].argv[j] : j \in DOMAIN invocations[i].argv} :
              i \in DOMAIN invocations}

\* C4 (as stated): when every invocation succeeds (and every image it made
\* loads) render_views_matrix has made exactly 7 invocations of the renderer,
\* one per view in the fixed order; an invocation that
\* fails is the last one, no composite is written and the result is an error
\* carrying its stderr
C4_SevenInvocations ==
    (IsMatrix /\ pc = "done" /\ invocations # <<>>)
        => /\ (AllSucceeded /\ result.kind # "image_error")
                => /\ Len(invocations) = Len(ViewOrder)
                   /\ \A i \in DOMAIN invocations :
                         invocations[i].argv[2].path = ViewFile(ViewOrder[i])
           /\ \A k \in DOMAIN invocations :
                 ~invocations[k].ok
                     => /\ k = Len(invocations)
                        /\ written = {}
                        /\ result.kind = "view_failed"
                        /\ result.stderr = invocations[k].stderr

\* C4 (amended): render_views_matrix first makes the mesh-export invocation of
\* the framing, whatever its outcome, then one invocation per view in the
\* fixed order; nothing follows a failed view invocation, which leaves no
\* composite and an error carrying its stderr; the 7 view invocations are all
\* made when each succeeds and each image loads
C4_ExportThenViewsInOrder ==
    IsMatrix
        => /\ Len(invocations) <= Len(ViewOrder) + 1
           /\ \A i \in DOMAIN invocations :
                 /\ Len(invocations[i].argv) = (IF i = 1 THEN 3 ELSE 4)
                 /\ invocations[i].argv[2].path
                        = (IF i = 1 THEN TempStl ELSE ViewFile(ViewOrder[i - 1]))
                 /\ (i >= 2 /\ i < Len(invocations)) => invocations[i].ok
           /\ (pc = "done" /\ Len(invocations) >= 2 /\ ~LastInvocation.ok)
                 => /\ written = {}
                    /\ result = Outcome("view_failed", ViewOrder[Len(invocations) - 1],
                                        LastInvocation.stderr)
           /\ (pc = "done" /\ invocations # <<>> /\ result.kind \notin {"view_failed", "image_error"})
                 => Len(invocations) = Len(ViewOrder) + 1
           /\ (pc = "done" /\ result.kind = "ok") => written = {call.out}

\* C4 witness: the 4th view invocation failed and the operation returned
C4_Witness ==
    /\ IsMatrix /\ pc = "done"
    /\ Len(invocations) = 5
    /\ ~invocations[5].ok
    /\ invocations[5].argv[2].path = ViewFile("Back")

\* C5 (as stated): the distance of every --camera token given to the renderer
\* is strictly greater than 0
C5_DistancePositive ==
    \A c \in CameraTokens : c.t = "camera" => Positive(c.camera.dist)

\* C5 (amended): the distance of a --camera token is the caller's value when
\* one was supplied, whatever its sign, and is strictly greater than 0 when
\* none was supplied
C5_ComputedDistancePositive ==
    \A c \in CameraTokens :
        c.t = "camera"
            => IF call.distance.set THEN c.camera.dist = call.distance
               ELSE Positive(c.camera.dist)

\* C5 witness: a camera token was built for a mesh of a single vertex, whose
\* diagonal is zero, the caller leaving the distance out
C5_Witness ==
    /\ mesh.kind = "mesh" /\ Cardinality(mesh.points) = 1
    /\ ~call.distance.set
    /\ \E c \in CameraTokens : c.t = "camera"

\* the square of the diagonal of the bounding box of a set of vertices
DiagonalSquared(pts) ==
    LET Span(i) == Max({v[i] : v \in pts}) - Min({v[i] : v \in pts})
    IN Span(1) * Span(1) + Span(2) * Span(2) + Span(3) * Span(3)

\* the mesh diagonal cannot be obtained: export failure, analysis error, empty mesh
Unobtainable(m) == m.kind \in {"failed", "corrupt"} \/ m.points = {}

\* the distance of the --camera tokens the operation has built
TokenDistances == {c.camera.dist : c \in {t \in CameraTokens : t.t = "camera"}}

\* C11 (as stated): when the caller supplies no distance, the distance given
\* to the renderer is diagonal x 2.5 for a non-zero diagonal, and 500 when the
\* diagonal is zero or cannot be obtained
C11_ZeroDiagonalGivesFallback ==
    (~call.distance.set /\ mesh # NoMesh)
        => \A d \in TokenDistances :
              IF Unobtainable(mesh) \/ DiagonalSquared(mesh.points) = 0
              THEN d = Whole(500)
              ELSE d = Times2p5(Sqrt(DiagonalSquared(mesh.points)))

\* C11 (amended): when the caller supplies no distance, the distance given to
\* the renderer is diagonal x 2.5 for a non-zero diagonal, 100 when the
\* diagonal is zero (all vertices coincide), and 500 when the diagonal cannot
\* be obtained (export failure, analysis error, empty mesh)
C11_DistanceFromDiagonal ==
    (~call.distance.set /\ mesh # NoMesh)
        => \A d \in TokenDistances :
              IF Unobtainable(mesh) THEN d = Whole(500)
              ELSE IF DiagonalSquared(mesh.points) = 0 THEN d = Whole(100)
              ELSE d = Times2p5(Sqrt(DiagonalSquared(mesh.points)))

\* C11 witness: render_views_matrix, called without a distance, rendered all
\* its views of a mesh whose bounding box is [0,10]^3: the diagonal is
\* sqrt(300) and the distance 2.5 x sqrt(300) = sqrt(7500) / 2
C11_Witness ==
    /\ IsMatrix /\ pc = "done" /\ result.kind = "ok"
    /\ ~call.distance.set
    /\ mesh.kind = "mesh" /\ mesh.points = {<<0, 0, 0>>, <<10, 10, 10>>}
    /\ TokenDistances = {[set |-> TRUE, sgn |-> 1, q |-> 7500]}

\* C12: a composite render_views_matrix has produced holds exactly the 7
\* views in the order Top, Bottom, Front, Back, Left, Right, Isometric, each
\* the image rendered for that view; the view at position i (from 0) is pasted
\* at (col * cellW, row * cellH + label band) with col = i mod 3 and
\* row = i div 3, and the canvas is 3 * cellW by ceil(7 / 3) * cellH, cellW and
\* cellH - label band being the width and height of the first image
C12_CompositeLayout ==
    matrix_img # NoImage
        => LET cellW == generated_images[1].img.size[1]
               cellH == generated_images[1].img.size[2] + label_height
               Ceil(a, b) == (a + b - 1) \div b
           IN /\ Len(matrix_img.pastes) = 7
              /\ \A i \in 0..6 :
                    LET paste == matrix_img.pastes[i + 1] IN
                    /\ paste.name = ViewOrder[i + 1]
                    /\ paste.img = [file |-> ViewFile(ViewOrder[i + 1]),
                                    size |-> generated_images[i + 1].img.size]
                    /\ paste.at = <<(i % 3) * cellW, (i \div 3) * cellH + label_height>>
              /\ matrix_img.size = <<3 * cellW, Ceil(7, 3) * cellH>>
              /\ written = {call.out}

\* C12 witness: a composite was saved whose first image is 4 by 3 and whose
\* last image, of another size, sits at the start of the third row
C12_Witness ==
    /\ pc = "done" /\ result.kind = "ok" /\ matrix_img # NoImage
    /\ generated_images[1].img.size = <<4, 3>>
    /\ generated_images[7].img.size = <<2, 5>>
    /\ matrix_img.size = <<12, 99>>
    /\ matrix_img.pastes[7].at = <<0, 96>>
    /\ matrix_img.pastes[5].at = <<4, 63>>

FramingFailed == mesh.kind \in {"failed", "corrupt"} \/ (mesh.kind = "mesh" /\ mesh.points = {})

\* C8: after a failed export, an unreadable mesh or an empty mesh the framing
\* is center (0,0,0) and distance 500, and the operation does not return
\* before it has issued a view invocation with that center
C8_FramingFailureKeepsRendering ==
    FramingFailed
        => /\ frame = [set |-> TRUE, cx |-> Whole(0), cy |-> Whole(0), cz |-> Whole(0),
                       dist |-> Whole(500)]
           /\ pc \in {"views", "render", "compose", "done"}
           /\ pc = "done"
                 => /\ Len(invocations) >= 2
                    /\ invocations[2].argv[3].t = "camera"
                    /\ invocations[2].argv[3].camera
                          = [set |-> TRUE, cx |-> Whole(0), cy |-> Whole(0), cz |-> Whole(0),
                             dist |-> IF call.distance.set THEN call.distance ELSE Whole(500)]

\* C8 witness: the export failed and render_views_matrix still produced its
\* composite
C8_Witness ==
    /\ IsMatrix /\ mesh.kind = "failed" /\ ~invocations[1].ok
    /\ pc = "done" /\ result.kind = "ok"

\* C9: the argv of render_preview is -o, the output, a --camera token if and
\* only if a rotation or distance was supplied, then the script; the token
\* holds the framing's center, the supplied rotations or 60, 0, 135, and the
\* supplied distance or the framing's; without a camera argument no framing
\* is computed
C9_PreviewArgv ==
    (IsPreview /\ pc = "done" /\ invocations # <<>>)
        => LET argv == LastInvocation.argv
               supplied == call.rx.set \/ call.ry.set \/ call.rz.set \/ call.distance.set
           IN /\ argv[1].t = "flag" /\ argv[1].flag = "-o"
              /\ argv[2].t = "path" /\ argv[2].path = call.out
              /\ argv[Len(argv)].t = "path" /\ argv[Len(argv)].path = call.scad
              /\ Len(argv) = (IF supplied THEN 4 ELSE 3)
              /\ supplied
                    => /\ argv[3].t = "camera"
                       /\ argv[3].rx = (IF call.rx.set THEN call.rx ELSE Whole(60))
                       /\ argv[3].ry = (IF call.ry.set THEN call.ry ELSE Whole(0))
                       /\ argv[3].rz = (IF call.rz.set THEN call.rz ELSE Whole(135))
                       /\ frame.set
                       /\ argv[3].camera
                             = [frame EXCEPT !.dist = IF call.distance.set THEN call.distance
                                                      ELSE frame.dist]
                       /\ Len(invocations) = 2
              /\ ~supplied
                    => /\ frame = NoFrame /\ mesh = NoMesh
                       /\ Len(invocations) = 1

\* C9 witness: only a rotation of 0 degrees was supplied, and the preview was
\* rendered with a camera token
C9_Witness ==
    /\ IsPreview /\ pc = "done"
    /\ call.rx = Whole(0) /\ ~call.ry.set /\ ~call.rz.set /\ ~call.distance.set
    /\ Len(invocations) = 2
    /\ LastInvocation.argv[3].t = "camera"

\* C10: no temporary file or directory exists once an operation has returned,
\* and the mesh file is gone once calculate_camera_parameters has returned
C10_TemporariesGone ==
    /\ pc \in {"idle", "done"} => tmp = {}
    /\ pc \in {"render", "views", "compose"} => TempStl \notin tmp

\* C10 witness: the operation returned after an image of the third view or a
\* later one failed to load
C10_Witness ==
    /\ IsMatrix /\ pc = "done"
    /\ result.kind = "image_error"
    /\ Len(generated_images) >= 2

====
